---- MODULE Spec2Model ----
(***************************************************************************)
(* bevy_turborand: the seed-derivation and ownership protocol.             *)
(*                                                                         *)
(* src/src/global/rng.rs  GlobalRng, the process-wide wrapper of one Rng   *)
(* src/src/lib.rs         RngPlugin, its seeds and build; the crate docs   *)
(*                                                                         *)
(* The generator algorithms live in the turborand crate; the per-entity    *)
(* components, the secure root and the DelegatedRng trait live in other    *)
(* modules of this crate (component, global::secure, traits, delegate).    *)
(* Those are modelled from the specification (sections 4.1 to 4.4) and are *)
(* marked so where they are defined.                                       *)
(*                                                                         *)
(* A u64 is a tuple of 8 bytes, least significant first, so that wrapping  *)
(* 64-bit and widening 128-bit arithmetic keep their width.                *)
(***************************************************************************)
EXTENDS Integers, Sequences, FiniteSets, TLC

VARIABLES
    features,   \* the cargo features the crate is built with
    plugin,     \* plugin[r]: the RngPlugin of run r
    gen,        \* gen[r][o]: the generator owner o holds in run r, <<core>> or Absent
    ty,         \* ty[e]: the component type of entity e, or "None"
    born,       \* born[r][e]: how entity e's generator was made in run r
    out,        \* out[r][o]: the values owner o has drawn in run r, in order
    last,       \* last[r]: what the latest operation of run r did
    nops,       \* operations performed so far
    bare,       \* a bare turborand Rng driven beside a GlobalRng
    bareOut,    \* the values drawn from the bare Rng
    access,     \* access[s][o]: the borrow system s holds on owner o
    busy        \* busy[s]: the method call system s is in the middle of

vars == <<features, plugin, gen, ty, born, out, last, nops, bare, bareOut, access, busy>>

(***************************************************************************)
(* Bounds of the model.                                                    *)
(***************************************************************************)
MaxSeed == 1        \* caller-supplied seeds are 0..MaxSeed
MaxEntropy == 1     \* the operating system's entropy is one of 0..MaxEntropy
MaxEntities == 2    \* entities e1..
MaxOps == 4         \* operations of one run of the application
MaxDraws == 2       \* draws per generator under free scheduling
MaxList == 2        \* sampled lists hold at most MaxList elements
MaxTries == 3       \* rejection rounds of one weighted sample
MaxCalls == 2       \* calls made on the wrapped and on the bare generator

Runs == {1, 2}
Seeds == 0..MaxSeed
Entropy == 0..MaxEntropy
EntityNames == <<"e1", "e2", "e3", "e4", "e5">>
Entities == {EntityNames[i] : i \in 1..MaxEntities}
Roots == {"GlobalRng", "GlobalSecureRng"}
Owners == Roots \cup Entities

None == <<>>
Some(v) == <<v>>
Absent == <<>>

\* let v = e; F(v): e is evaluated once
Bind(e, F(_)) == CHOOSE x \in {F(v) : v \in {e}} : TRUE

(***************************************************************************)
(* Option::map_or_else                                                     *)
(***************************************************************************)
map_or_else(opt, default, f(_)) == IF opt = None THEN default ELSE f(opt[1])

(***************************************************************************)
(* 64-bit words.                                                           *)
(***************************************************************************)
U64(n) == <<n % 256, (n \div 256) % 256, (n \div 65536) % 256, (n \div 16777216) % 256, 0, 0, 0, 0>>

Xor4 == [a \in 0..15, b \in 0..15 |->
           LET bit(x, i) == (x \div (2^i)) % 2
           IN  ((bit(a, 0) + bit(b, 0)) % 2) + 2 * ((bit(a, 1) + bit(b, 1)) % 2)
               + 4 * ((bit(a, 2) + bit(b, 2)) % 2) + 8 * ((bit(a, 3) + bit(b, 3)) % 2)]

Xor8(a, b) == 16 * Xor4[a \div 16, b \div 16] + Xor4[a % 16, b % 16]

XorW(x, y) ==
    <<Xor8(x[1], y[1]), Xor8(x[2], y[2]), Xor8(x[3], y[3]), Xor8(x[4], y[4]),
      Xor8(x[5], y[5]), Xor8(x[6], y[6]), Xor8(x[7], y[7]), Xor8(x[8], y[8])>>

\* Carry propagation over byte columns, least significant first; the carry out
\* of the last column is dropped
RECURSIVE Carry(_, _, _)
Carry(cols, k, c) ==
    IF k > Len(cols) THEN <<>>
    ELSE LET s == cols[k] + c IN <<s % 256>> \o Carry(cols, k + 1, s \div 256)

\* u64::wrapping_add
wrapping_add(x, y) ==
    Carry(<<x[1] + y[1], x[2] + y[2], x[3] + y[3], x[4] + y[4],
            x[5] + y[5], x[6] + y[6], x[7] + y[7], x[8] + y[8]>>, 1, 0)

\* The byte columns of x * y (schoolbook multiplication; x is taken two bytes
\* at a time)
Cols(x, y) ==
    LET X1 == x[1] + 256 * x[2]
        X2 == x[3] + 256 * x[4]
        X3 == x[5] + 256 * x[6]
        X4 == x[7] + 256 * x[8]
    IN  <<X1 * y[1],
          X1 * y[2],
          X1 * y[3] + X2 * y[1],
          X1 * y[4] + X2 * y[2],
          X1 * y[5] + X2 * y[3] + X3 * y[1],
          X1 * y[6] + X2 * y[4] + X3 * y[2],
          X1 * y[7] + X2 * y[5] + X3 * y[3] + X4 * y[1],
          X1 * y[8] + X2 * y[6] + X3 * y[4] + X4 * y[2],
          X2 * y[7] + X3 * y[5] + X4 * y[3],
          X2 * y[8] + X3 * y[6] + X4 * y[4],
          X3 * y[7] + X4 * y[5],
          X3 * y[8] + X4 * y[6],
          X4 * y[7],
          X4 * y[8],
          0,
          0>>

\* u128::from(x).wrapping_mul(u128::from(y)): 16 bytes
widening_mul(x, y) == Carry(Cols(x, y), 1, 0)

(***************************************************************************)
(* turborand's Rng (WyRand).  Not part of this repository: modelled from   *)
(* the specification's GeneratorCore contract, with the published WyRand   *)
(* step.  Rng::with_seed(0) followed by gen_u64 gives                      *)
(* 14839104130206199084, the value turborand documents.                    *)
(***************************************************************************)
WY_INCREMENT == <<47, 100, 189, 120, 100, 29, 118, 160>>    \* 0xa0761d6478bd642f
WY_XOR == <<219, 40, 180, 160, 209, 126, 3, 231>>           \* 0xe7037ed1a0b428db

\* One step: the state advances by the increment, the output mixes the new state.
WyRand_rand(state) ==
    LET s == wrapping_add(state, WY_INCREMENT)
        t == widening_mul(s, XorW(s, WY_XOR))
    IN  [state |-> s, val |-> XorW(SubSeq(t, 1, 8), SubSeq(t, 9, 16))]

\* Rng::with_seed(seed): the state is seed << 1 | 1.
Rng_with_seed(seed) ==
    LET d == wrapping_add(seed, seed) IN [d EXCEPT ![1] = d[1] + 1]

\* Rng::new(): seeded from the operating system's entropy e.
Rng_new(e) == Rng_with_seed(U64(e))

(***************************************************************************)
(* turborand's ChaChaRng, the cryptographic tier.  Not part of this        *)
(* repository.  ChaCha8 itself is not modelled: a 64-bit stand-in stream   *)
(* takes its place, deterministic in its state as the specification's      *)
(* GeneratorCore requires.  A [u8; 40] seed with every byte k is k.        *)
(***************************************************************************)
ChaChaRng_with_seed(k) == <<k, k, k, k, k, k, k, k>>

ChaChaRng_new(e) == ChaChaRng_with_seed(e)

ChaCha_rand(state) ==
    LET s == wrapping_add(state, WY_XOR)
        t == widening_mul(s, XorW(s, WY_INCREMENT))
    IN  [state |-> s, val |-> XorW(SubSeq(t, 1, 8), SubSeq(t, 9, 16))]

\* gen_u64 of a generator core of algorithm src
Core_rand(src, state) == IF src = "Rng" THEN WyRand_rand(state) ELSE ChaCha_rand(state)

\* ForkableCore::fork: one draw from the parent seeds the child.
Core_fork(src, state) ==
    LET r == Core_rand(src, state) IN [state |-> r.state, child |-> r.val]

(***************************************************************************)
(* turborand's sampling methods (TurboRand), modelled from section 4.2 of  *)
(* the specification.  A weight is a number of halves: 0, 1 or 2 for 0.0,  *)
(* 0.5 and 1.0.  usize is 64 bits wide.                                    *)
(***************************************************************************)
Weights == 0..2

\* index drawn below len: the high word of gen_u64() * len
Rng_index(state, len) ==
    Bind(WyRand_rand(state),
         LAMBDA r : [state |-> r.state, idx |-> widening_mul(r.val, U64(len))[9]])

\* sample(list): None on an empty list, else the element at a drawn index
Rng_sample(state, list) ==
    IF Len(list) = 0 THEN [state |-> state, ret |-> None]
    ELSE Bind(Rng_index(state, Len(list)),
              LAMBDA i : [state |-> i.state, ret |-> Some(list[i.idx + 1])])

\* chance(rate): certain and impossible rates draw nothing; otherwise
\* gen_u64() < rate * 2^64, decided by the top byte for a rate of one half
Rng_chance(state, rate) ==
    IF rate = 2 THEN [state |-> state, ret |-> TRUE]
    ELSE IF rate = 0 THEN [state |-> state, ret |-> FALSE]
    ELSE Bind(WyRand_rand(state),
              LAMBDA r : [state |-> r.state, ret |-> r.val[8] < 128 * rate])

\* The rejection loop of weighted_sample: sample, keep the item with the chance
\* its weight gives, else sample again.  The loop has no bound in turborand;
\* "Pending" stands for a call still looping after `tries` rounds.
RECURSIVE WeightedLoop(_, _, _, _)
WeightedLoop(state, list, weight_sampler, tries) ==
    IF tries = 0 THEN [state |-> state, ret |-> "Pending"]
    ELSE Bind(Rng_sample(state, list), LAMBDA s :
         Bind(Rng_chance(s.state, weight_sampler[s.ret[1]]), LAMBDA c :
              IF c.ret THEN [state |-> c.state, ret |-> s.ret]
              ELSE WeightedLoop(c.state, list, weight_sampler, tries - 1)))

\* weighted_sample(list, weight_sampler)
Rng_weighted_sample(state, list, weight_sampler) ==
    CASE Len(list) = 0 -> [state |-> state, ret |-> None]
      [] Len(list) = 1 -> [state |-> state, ret |-> Some(list[1])]
      [] OTHER -> WeightedLoop(state, list, weight_sampler, MaxTries)

\* weighted_sample_mut(list, weight_sampler): the same choice, handed out as &mut
Rng_weighted_sample_mut(state, list, weight_sampler) ==
    Rng_weighted_sample(state, list, weight_sampler)

(***************************************************************************)
(* GlobalRng (global/rng.rs): struct GlobalRng(Rng), a tuple of one field. *)
(***************************************************************************)
GlobalRng_Inner == "Rng"        \* the type of field 0

\* GlobalRng::new()
GlobalRng_new(e) == <<Rng_new(e)>>

\* Fault: a with_seed that ignored its seed and asked the system for entropy
WithSeed_entropy(env, seed) == <<Rng_new(env)>>

\* GlobalRng::with_seed(seed).  env is the entropy the operating system would
\* hand out at this moment; with_seed does not ask for it.
GlobalRng_with_seed(env, seed) == <<Rng_with_seed(seed)>>

\* Fault: a GlobalRng that declared the secure source
Source_chacha == "ChaChaRng"

\* impl DelegatedRng for GlobalRng: type Source = Rng
GlobalRng_Source == "Rng"

\* get_mut(&mut self) -> &mut Rng is &mut self.0: what is read through the
\* reference ...
GlobalRng_get_mut(self) == self[1]

\* Fault: get_mut handing out a copy, so that writes through it are lost
GetMut_store_lost(self, rng) == self

\* Fault: a write through get_mut that reseeds the generator
GetMut_store_reseed(self, rng) == <<Rng_with_seed(rng)>>

\* ... and what a write through it leaves in self.
GlobalRng_get_mut_store(self, rng) == [self EXCEPT ![1] = rng]

\* impl Default for GlobalRng
GlobalRng_default(e) == GlobalRng_new(e)

\* impl AsMut<Rng> for GlobalRng: self.get_mut()
GlobalRng_as_mut(self) == GlobalRng_get_mut(self)

GlobalRng_as_mut_store(self, rng) == GlobalRng_get_mut_store(self, rng)

\* Fault: a weighted_sample_mut that makes up an element for an empty list
WeightedSampleMut_default(self, list, weight_sampler) ==
    IF Len(list) = 0 THEN [self |-> self, ret |-> Some("a")]
    ELSE Bind(Rng_weighted_sample_mut(self[1], list, weight_sampler),
              LAMBDA r : [self |-> <<r.state>>, ret |-> r.ret])

\* Fault: a weighted_sample_mut that samples from a copy of the generator
WeightedSampleMut_clone(self, list, weight_sampler) ==
    [self |-> self, ret |-> Rng_weighted_sample_mut(self[1], list, weight_sampler).ret]

\* impl DelegatedRng for GlobalRng: weighted_sample_mut(&mut self, list, weight_sampler)
\* is self.0.weighted_sample_mut(list, weight_sampler)
GlobalRng_weighted_sample_mut(self, list, weight_sampler) ==
    Bind(Rng_weighted_sample_mut(self[1], list, weight_sampler),
         LAMBDA r : [self |-> <<r.state>>, ret |-> r.ret])

(***************************************************************************)
(* GlobalSecureRng (global/secure.rs, modelled from the specification):    *)
(* the same wrapper around a ChaChaRng.                                    *)
(***************************************************************************)
GlobalSecureRng_new(e) == <<ChaChaRng_new(e)>>

GlobalSecureRng_with_seed(env, seed) == <<ChaChaRng_with_seed(seed)>>

(***************************************************************************)
(* The DelegatedRng trait and the components (traits.rs, delegate.rs,      *)
(* component/rng.rs, component/secure.rs: modelled from the specification, *)
(* sections 4.2 and 4.4, and from the crate docs of lib.rs).               *)
(***************************************************************************)
ComponentTypes == {"RngComponent", "SecureRngComponent"}

\* T::Source of an owner type
SourceOf(t) ==
    CASE t = "GlobalRng" -> GlobalRng_Source
      [] t = "RngComponent" -> "Rng"
      [] OTHER -> "ChaChaRng"

\* The algorithm an owner type holds
InnerOf(t) ==
    CASE t = "GlobalRng" -> GlobalRng_Inner
      [] t = "RngComponent" -> "Rng"
      [] OTHER -> "ChaChaRng"

\* The quality tiers, Standard below Cryptographic
TierRank == [Rng |-> 1, ChaChaRng |-> 2]

Tier(t) == TierRank[InnerOf(t)]

\* lib.rs: GlobalRng and RngComponent "don't implement SecureCore"
SecureCore(core) == core = "ChaChaRng"

\* lib.rs: the secure types can seed SecureRngComponent and RngComponent; the
\* others cannot seed SecureRngComponent.
CanSeed(childTy, srcTy) == childTy = "SecureRngComponent" => SecureCore(SourceOf(srcTy))

\* DelegatedRng::get_mut of an owner of type t
get_mut(t, self) == IF t = "GlobalRng" THEN GlobalRng_get_mut(self) ELSE self[1]

get_mut_store(t, self, core) ==
    IF t = "GlobalRng" THEN GlobalRng_get_mut_store(self, core) ELSE [self EXCEPT ![1] = core]

\* A delegated draw, self.get_mut().gen_u64()
Delegated_u64(t, self) ==
    LET r == Core_rand(SourceOf(t), get_mut(t, self))
    IN  [self |-> get_mut_store(t, self, r.state), val |-> r.val]

\* Delegated sample and weighted_sample: self.get_mut().sample(list), ...
Delegated_sample(t, self, list) ==
    Bind(Rng_sample(get_mut(t, self), list),
         LAMBDA r : [self |-> get_mut_store(t, self, r.state), ret |-> r.ret])

Delegated_weighted_sample(t, self, list, weight_sampler) ==
    Bind(Rng_weighted_sample(get_mut(t, self), list, weight_sampler),
         LAMBDA r : [self |-> get_mut_store(t, self, r.state), ret |-> r.ret])

\* RngComponent::from(&mut source), SecureRngComponent::from(&mut source): the
\* source is forked through get_mut and the component owns the new core.
Component_from(t, self) ==
    LET f == Core_fork(SourceOf(t), get_mut(t, self))
    IN  [self |-> get_mut_store(t, self, f.state), comp |-> <<f.child>>]

(***************************************************************************)
(* RngPlugin (lib.rs).                                                     *)
(***************************************************************************)
Features == {"wyrand", "chacha"}

\* RngPlugin::new()
RngPlugin_new == [rng |-> None, secure |-> None]

\* RngPlugin::with_rng_seed(self, seed)
RngPlugin_with_rng_seed(self, seed) == [self EXCEPT !.rng = Some(seed)]

\* RngPlugin::with_secure_seed(self, seed)
RngPlugin_with_secure_seed(self, seed) == [self EXCEPT !.secure = Some(seed)]

\* impl Default for RngPlugin
RngPlugin_default == RngPlugin_new

\* App::insert_resource
insert_resource(app, name, value) == [app EXCEPT ![name] = value]

\* Fault: a build that ignored the seeds of the plugin
Build_unseeded(self, app, feat, e1, e2) ==
    LET a == IF "wyrand" \in feat
             THEN insert_resource(app, "GlobalRng", GlobalRng_new(e1)) ELSE app
    IN  IF "chacha" \in feat
        THEN insert_resource(a, "GlobalSecureRng", GlobalSecureRng_new(e2)) ELSE a

\* impl Plugin for RngPlugin: build(&self, app).  e1 and e2 are the entropy
\* GlobalRng::new and GlobalSecureRng::new would draw.
RngPlugin_build(self, app, feat, e1, e2) ==
    LET std(seed) == GlobalRng_with_seed(e1, seed)
        sec(seed) == GlobalSecureRng_with_seed(e2, seed)
        a == IF "wyrand" \in feat
             THEN insert_resource(app, "GlobalRng",
                                  map_or_else(self.rng, GlobalRng_new(e1), std))
             ELSE app
    IN  IF "chacha" \in feat
        THEN insert_resource(a, "GlobalSecureRng",
                             map_or_else(self.secure, GlobalSecureRng_new(e2), sec))
        ELSE a

(***************************************************************************)
(* State shared by the specifications.                                     *)
(***************************************************************************)
NoGen == [o \in Owners |-> Absent]
NoOut == [o \in Owners |-> <<>>]
NoOp == [tick |-> 0, op |-> "none"]
NotBorn == [of |-> "None"]
Systems == {"s1", "s2"}
Idle ==
    /\ ty = [e \in Entities |-> "None"]
    /\ born = [r \in Runs |-> [e \in Entities |-> NotBorn]]
    /\ out = [r \in Runs |-> NoOut]
    /\ nops = 0
    /\ bare = Absent
    /\ bareOut = <<>>
    /\ access = [s \in Systems |-> [o \in Owners |-> "none"]]
    /\ busy = [s \in Systems |-> None]

Tick(r) == 1 - last[r].tick
Acted(r) == last'[r].tick # last[r].tick
Built(r) == \E o \in Roots : gen[r][o] # Absent

(***************************************************************************)
(* SpecPlugin: two applications are configured and built independently.    *)
(***************************************************************************)
InitPlugin ==
    /\ features \in (SUBSET Features) \ {{}}
    /\ plugin \in [Runs -> {RngPlugin_new, RngPlugin_default}]
    /\ gen = [r \in Runs |-> NoGen]
    /\ last = [r \in Runs |-> NoOp]
    /\ Idle

PluginWithRngSeed(r, seed) ==
    /\ "wyrand" \in features
    /\ ~Built(r)
    /\ plugin' = [plugin EXCEPT ![r] = RngPlugin_with_rng_seed(@, U64(seed))]
    /\ last' = [last EXCEPT ![r] = [tick |-> Tick(r), op |-> "with_rng_seed", seed |-> U64(seed)]]
    /\ UNCHANGED <<features, gen, ty, born, out, nops, bare, bareOut, access, busy>>

PluginWithSecureSeed(r, seed) ==
    /\ "chacha" \in features
    /\ ~Built(r)
    /\ plugin' = [plugin EXCEPT ![r] = RngPlugin_with_secure_seed(@, seed)]
    /\ last' = [last EXCEPT ![r] = [tick |-> Tick(r), op |-> "with_secure_seed", seed |-> seed]]
    /\ UNCHANGED <<features, gen, ty, born, out, nops, bare, bareOut, access, busy>>

PluginBuild(r, e1, e2) ==
    /\ ~Built(r)
    /\ gen' = [gen EXCEPT ![r] = RngPlugin_build(plugin[r], @, features, e1, e2)]
    /\ last' = [last EXCEPT ![r] = [tick |-> Tick(r), op |-> "build", e1 |-> e1, e2 |-> e2]]
    /\ UNCHANGED <<features, plugin, ty, born, out, nops, bare, bareOut, access, busy>>

NextPlugin ==
    \/ \E r \in Runs, seed \in Seeds : PluginWithRngSeed(r, seed)
    \/ \E r \in Runs, seed \in Seeds : PluginWithSecureSeed(r, seed)
    \/ \E r \in Runs, e1 \in Entropy, e2 \in Entropy : PluginBuild(r, e1, e2)

SpecPlugin == InitPlugin /\ [][NextPlugin]_vars

\* What the step of run r that just happened must have done.
PluginStepOK(r) ==
    /\ last'[r].op = "with_rng_seed" =>
          /\ plugin'[r] = [rng |-> Some(last'[r].seed), secure |-> plugin[r].secure]
          /\ gen'[r] = gen[r]
    /\ last'[r].op = "with_secure_seed" =>
          /\ plugin'[r] = [rng |-> plugin[r].rng, secure |-> Some(last'[r].seed)]
          /\ gen'[r] = gen[r]
    /\ last'[r].op = "build" =>
          /\ plugin'[r] = plugin[r]
          /\ gen'[r]["GlobalRng"] =
                IF "wyrand" \notin features THEN Absent
                ELSE IF plugin[r].rng = None THEN <<Rng_new(last'[r].e1)>>
                ELSE <<Rng_with_seed(plugin[r].rng[1])>>
          /\ gen'[r]["GlobalSecureRng"] =
                IF "chacha" \notin features THEN Absent
                ELSE IF plugin[r].secure = None THEN <<ChaChaRng_new(last'[r].e2)>>
                ELSE <<ChaChaRng_with_seed(plugin[r].secure[1])>>
          /\ \A e \in Entities : gen'[r][e] = Absent

PluginStateOK ==
    /\ \A r \in Runs : last[r].op = "none" => plugin[r] = [rng |-> None, secure |-> None]
    /\ (Built(1) /\ Built(2)) =>
          /\ (plugin[1].rng # None /\ plugin[1].rng = plugin[2].rng) =>
                gen[1]["GlobalRng"] = gen[2]["GlobalRng"]
          /\ (plugin[1].secure # None /\ plugin[1].secure = plugin[2].secure) =>
                gen[1]["GlobalSecureRng"] = gen[2]["GlobalSecureRng"]

\* C5: RngPlugin::new() and default() carry no seeds; with_rng_seed(s) sets only
\* the standard seed and with_secure_seed(k) only the secure seed; build leaves
\* the plugin as it was and inserts one root per enabled tier, built from the
\* explicit seed when the option is set (two builds with the same seed give
\* roots in the same state) and from the system's entropy when it is not.
Thm_C5 == [](PluginStateOK) /\ [][\A r \in Runs : Acted(r) => PluginStepOK(r)]_vars

Wit_C5 ==
    /\ features = Features
    /\ Built(1) /\ Built(2)
    /\ plugin[1].rng # None /\ plugin[1].rng = plugin[2].rng
    /\ plugin[1].secure = None /\ plugin[2].secure # None
    /\ gen[1]["GlobalRng"] = gen[2]["GlobalRng"]
    /\ gen[1]["GlobalSecureRng"] # gen[2]["GlobalSecureRng"]

(***************************************************************************)
(* Spec: one application, run twice.  Both runs are built from the same    *)
(* plugin and perform the same forks and draws in the same order; each run *)
(* has its own entropy.                                                    *)
(***************************************************************************)
OwnerType(o) == IF o \in Roots THEN o ELSE ty[o]

Spawned == {e \in Entities : ty[e] # "None"}

\* The plugins an application is built from
AppPlugins ==
    LET std == {RngPlugin_new} \cup {RngPlugin_with_rng_seed(RngPlugin_new, U64(s)) : s \in Seeds}
    IN  {RngPlugin_with_secure_seed(p, 0) : p \in std}

Init ==
    /\ features = Features
    /\ \E p \in AppPlugins, e \in [Runs -> Entropy] :
          /\ plugin = [r \in Runs |-> p]
          /\ gen = [r \in Runs |-> RngPlugin_build(p, NoGen, features, e[r], e[r])]
    /\ last = [r \in Runs |-> NoOp]
    /\ Idle

\* A system attaches a component to the next entity: Component::from(&mut source)
Spawn(e, t, src) ==
    /\ nops < MaxOps
    /\ e = EntityNames[Cardinality(Spawned) + 1]
    /\ gen[1][src] # Absent
    /\ CanSeed(t, OwnerType(src))
    /\ \E F \in {<<Component_from(OwnerType(src), gen[1][src]),
                   Component_from(OwnerType(src), gen[2][src])>>} :
           /\ gen' = [r \in Runs |-> [gen[r] EXCEPT ![src] = F[r].self, ![e] = F[r].comp]]
           /\ born' = [r \in Runs |-> [born[r] EXCEPT ![e] =
                          [of |-> src,
                           twin |-> IF last[r].op = "fork" /\ last[r].on = src
                                    THEN last[r].dst ELSE "None",
                           pre |-> gen[r][src],
                           init |-> F[r].comp]]]
    /\ last' = [r \in Runs |->
                  [tick |-> Tick(r), op |-> "fork", on |-> src, dst |-> e, pre |-> gen[r][src]]]
    /\ ty' = [ty EXCEPT ![e] = t]
    /\ nops' = nops + 1
    /\ UNCHANGED <<features, plugin, out, bare, bareOut, access, busy>>

\* A system draws a value from the generator of owner o
Draw(o) ==
    /\ nops < MaxOps
    /\ gen[1][o] # Absent
    /\ \E D \in {<<Delegated_u64(OwnerType(o), gen[1][o]),
                   Delegated_u64(OwnerType(o), gen[2][o])>>} :
           /\ gen' = [r \in Runs |-> [gen[r] EXCEPT ![o] = D[r].self]]
           /\ out' = [r \in Runs |-> [out[r] EXCEPT ![o] = Append(@, D[r].val)]]
    /\ last' = [r \in Runs |->
                  [tick |-> Tick(r), op |-> "draw", on |-> o, dst |-> "None", pre |-> gen[r][o]]]
    /\ nops' = nops + 1
    /\ UNCHANGED <<features, plugin, ty, born, bare, bareOut, access, busy>>

Next ==
    \/ \E e \in Entities, t \in ComponentTypes, src \in Owners : Spawn(e, t, src)
    \/ \E o \in Owners : Draw(o)

Spec == Init /\ [][Next]_vars

Seeded == plugin[1].rng # None

\* The owners whose generator descends from the standard root
RECURSIVE FromGlobalRng(_)
FromGlobalRng(o) ==
    IF o \in Roots THEN o = "GlobalRng"
    ELSE IF ty[o] = "None" THEN FALSE
    ELSE FromGlobalRng(born[1][o].of)

\* The owners entity e's generator descends from
RECURSIVE Ancestors(_)
Ancestors(e) ==
    IF e \in Roots \/ ty[e] = "None" THEN {}
    ELSE {born[1][e].of} \cup Ancestors(born[1][e].of)

\* C1: with the root made by GlobalRng::with_seed(S), two runs of the same
\* sequence of forks and draws draw the same values and end with the root and
\* every generator forked from it, directly or not, in the same state.
Thm_C1 ==
    Seeded => \A o \in Owners : FromGlobalRng(o) =>
                 /\ gen[1][o] = gen[2][o]
                 /\ out[1][o] = out[2][o]
                 /\ o \in Entities => born[1][o] = born[2][o]

Wit_C1 ==
    /\ Seeded
    /\ nops = MaxOps
    /\ \E e \in Entities : born[1][e].of = "GlobalRng" /\ Len(out[1][e]) > 0
    /\ Len(out[1]["GlobalRng"]) > 0

\* Without a seed the two runs can differ: the agreement above is the seed's doing.
Wit_C1_unseeded ==
    /\ ~Seeded
    /\ Len(out[1]["GlobalRng"]) > 0
    /\ out[1]["GlobalRng"] # out[2]["GlobalRng"]

\* C3: every generator has a tier no higher than the tier of each generator it
\* descends from; nothing forked, directly or not, from a Standard generator is
\* Cryptographic.
Thm_C3 ==
    \A e \in Spawned : \A a \in Ancestors(e) :
        /\ Tier(ty[e]) <= Tier(OwnerType(a))
        /\ Tier(OwnerType(a)) = TierRank["Rng"] => ty[e] # "SecureRngComponent"

Wit_C3 ==
    \E e1 \in Spawned, e2 \in Spawned :
        /\ ty[e1] = "SecureRngComponent" /\ born[1][e1].of = "GlobalSecureRng"
        /\ ty[e2] = "RngComponent" /\ born[1][e2].of = e1

Thm_C9 ==
    /\ \A r \in Runs : last[r].op = "fork" => gen[r][last[r].on] # last[r].pre
    /\ (last[1].op = "fork" /\ last[1].pre = last[2].pre) =>
          /\ gen[1][last[1].on] = gen[2][last[2].on]
          /\ born[1][last[1].dst].init = born[2][last[2].dst].init
    /\ Seeded => \A e \in Spawned : FromGlobalRng(e) => born[1][e].init = born[2][e].init

Wit_C9 ==
    /\ Seeded
    /\ last[1].op = "fork" /\ last[1].on \in Entities
    /\ ty[last[1].on] = "RngComponent" /\ born[1][last[1].on].of = "GlobalRng"
    /\ last[1].pre = last[2].pre

\* The step of run r that just happened was an operation on owner o
ActsOn(r, o) == last'[r].on = o

\* C6: a draw on an entity's generator changes that generator and nothing
\* else; the state of a root changes only in a draw or a fork on that root,
\* and then only by advancing its own generator.
Thm_C6 ==
    [][\A r \in Runs :
          /\ \A o \in Owners :
                /\ gen'[r][o] # gen[r][o] => (ActsOn(r, o) \/ last'[r].dst = o)
                /\ out'[r][o] # out[r][o] => (ActsOn(r, o) /\ last'[r].op = "draw")
          /\ (last'[r].op = "draw" /\ last'[r].on \in Entities) =>
                \A o \in Owners \ {last'[r].on} : gen'[r][o] = gen[r][o]
          /\ \A o \in Roots :
                gen'[r][o] # gen[r][o] =>
                   /\ ActsOn(r, o)
                   /\ gen'[r][o] = <<Core_rand(InnerOf(o), gen[r][o][1]).state>>]_vars

Wit_C6 ==
    /\ last[1].op = "draw" /\ last[1].on \in Entities
    /\ Cardinality(Spawned) = MaxEntities
    /\ Len(out[1]["GlobalRng"]) > 0

(***************************************************************************)
(* SpecSched: the entities are given their generators from the seeded root *)
(* in a fixed order; after that each run's scheduler picks, step by step,  *)
(* which entity's system draws next.  Systems on different entities hold   *)
(* disjoint &mut borrows, so their draws interleave freely.                *)
(***************************************************************************)
InitSched ==
    /\ features = {"wyrand"}
    /\ \E s \in Seeds, e \in [Runs -> Entropy] :
          LET p == RngPlugin_with_rng_seed(RngPlugin_new, U64(s))
          IN  /\ plugin = [r \in Runs |-> p]
              /\ gen = [r \in Runs |-> RngPlugin_build(p, NoGen, features, e[r], e[r])]
    /\ last = [r \in Runs |-> NoOp]
    /\ Idle

\* The startup system forks the root for the next entity
SpawnSched(e) == Spawn(e, "RngComponent", "GlobalRng")

\* In run r the system of entity e draws
DrawSched(r, e) ==
    /\ gen[r][e] # Absent
    /\ Len(out[r][e]) < MaxDraws
    /\ \E d \in {Delegated_u64(OwnerType(e), gen[r][e])} :
          /\ gen' = [gen EXCEPT ![r][e] = d.self]
          /\ out' = [out EXCEPT ![r][e] = Append(@, d.val)]
    /\ UNCHANGED <<features, plugin, ty, born, last, nops, bare, bareOut, access, busy>>

NextSched ==
    \/ \E e \in Entities : SpawnSched(e)
    \/ \E r \in Runs, e \in Entities : DrawSched(r, e)

SpecSched == InitSched /\ [][NextSched]_vars

IsPrefix(a, b) == Len(a) <= Len(b) /\ SubSeq(b, 1, Len(a)) = a

\* C2: whatever order the two schedulers pick the entities in, every entity
\* draws the same sequence of values in both runs.
Thm_C2 ==
    \A e \in Entities : IsPrefix(out[1][e], out[2][e]) \/ IsPrefix(out[2][e], out[1][e])

\* The runs have made the same number of draws, on different entities, so in
\* different orders; every entity has drawn in both.
Wit_C2 ==
    /\ Len(out[1]["e1"]) = MaxDraws /\ Len(out[1]["e2"]) = 1
    /\ Len(out[2]["e1"]) = 1 /\ Len(out[2]["e2"]) = MaxDraws
    /\ \A e \in Entities \ {"e1", "e2"} : out[1][e] = out[2][e]
    /\ out[1]["e1"][1] = out[2]["e1"][1] /\ out[1]["e2"][1] = out[2]["e2"][1]
    /\ out[1]["e1"][1] # out[1]["e2"][1]

(***************************************************************************)
(* SpecWrap: a GlobalRng and a bare turborand Rng are made from the same   *)
(* seed and given the same calls, the GlobalRng through its access paths   *)
(* (get_mut, as_mut, the delegated methods, weighted_sample_mut), the Rng  *)
(* directly.                                                               *)
(***************************************************************************)
Elements == {"a", "b"}
Lists == {SubSeq(<<"a", "b", "a">>, 1, n) : n \in 0..MaxList}
WeightSamplers == [Elements -> Weights]

Wrapped == gen[1]["GlobalRng"]

InitWrap ==
    /\ features = {"wyrand"}
    /\ plugin = [r \in Runs |-> RngPlugin_new]
    /\ \E s \in Seeds, e \in Entropy, how \in {"with_seed", "new", "default"} :
          /\ gen = [r \in Runs |-> IF r = 2 THEN NoGen ELSE
                       [NoGen EXCEPT !["GlobalRng"] =
                           CASE how = "with_seed" -> GlobalRng_with_seed(e, U64(s))
                             [] how = "new" -> GlobalRng_new(e)
                             [] OTHER -> GlobalRng_default(e)]]
          /\ bare = IF how = "with_seed" THEN Rng_with_seed(U64(s)) ELSE Rng_new(e)
          /\ last = [r \in Runs |-> [tick |-> 0, op |-> how]]
    /\ ty = [e \in Entities |-> "None"]
    /\ born = [r \in Runs |-> [e \in Entities |-> NotBorn]]
    /\ out = [r \in Runs |-> NoOut]
    /\ nops = 0
    /\ bareOut = <<>>
    /\ access = [s \in Systems |-> [o \in Owners |-> "none"]]
    /\ busy = [s \in Systems |-> None]

\* One call: g is what it leaves of the GlobalRng and returns, b the same for
\* the bare Rng
Called(op, list, g, b) ==
    /\ g.ret # "Pending" /\ b.ret # "Pending"
    /\ gen' = [gen EXCEPT ![1]["GlobalRng"] = g.self]
    /\ out' = [out EXCEPT ![1]["GlobalRng"] = Append(@, g.ret)]
    /\ bare' = b.state
    /\ bareOut' = Append(bareOut, b.ret)
    /\ last' = [last EXCEPT ![1] = [tick |-> Tick(1), op |-> op, list |-> list, ret |-> g.ret]]
    /\ nops' = nops + 1
    /\ UNCHANGED <<features, plugin, ty, born, access, busy>>

BareU64 == LET r == WyRand_rand(bare) IN [state |-> r.state, ret |-> r.val]

\* rng.get_mut().gen_u64()
WrapGetMut ==
    /\ nops < MaxCalls
    /\ \E r \in {WyRand_rand(GlobalRng_get_mut(Wrapped))} :
           Called("get_mut", <<>>,
                  [self |-> GlobalRng_get_mut_store(Wrapped, r.state), ret |-> r.val], BareU64)

\* rng.as_mut().gen_u64()
WrapAsMut ==
    /\ nops < MaxCalls
    /\ \E r \in {WyRand_rand(GlobalRng_as_mut(Wrapped))} :
           Called("as_mut", <<>>,
                  [self |-> GlobalRng_as_mut_store(Wrapped, r.state), ret |-> r.val], BareU64)

\* rng.u64(..), a delegated method
WrapDelegated ==
    /\ nops < MaxCalls
    /\ \E d \in {Delegated_u64("GlobalRng", Wrapped)} :
           Called("u64", <<>>, [self |-> d.self, ret |-> d.val], BareU64)

\* rng.sample(list)
WrapSample(list) ==
    /\ nops < MaxCalls
    /\ \E d \in {Delegated_sample("GlobalRng", Wrapped, list)}, b \in {Rng_sample(bare, list)} :
           Called("sample", list, d, b)

\* rng.weighted_sample(list, weight_sampler)
WrapWeightedSample(list, w) ==
    /\ nops < MaxCalls
    /\ \E d \in {Delegated_weighted_sample("GlobalRng", Wrapped, list, w)},
          b \in {Rng_weighted_sample(bare, list, w)} :
           Called("weighted_sample", list, d, b)

\* rng.weighted_sample_mut(list, weight_sampler)
WrapWeightedSampleMut(list, w) ==
    /\ nops < MaxCalls
    /\ \E d \in {GlobalRng_weighted_sample_mut(Wrapped, list, w)},
          b \in {Rng_weighted_sample_mut(bare, list, w)} :
           Called("weighted_sample_mut", list, d, b)

NextWrap ==
    \/ WrapGetMut
    \/ WrapAsMut
    \/ WrapDelegated
    \/ \E list \in Lists : WrapSample(list)
    \/ \E list \in Lists, w \in WeightSamplers : WrapWeightedSample(list, w)
    \/ \E list \in Lists, w \in WeightSamplers : WrapWeightedSampleMut(list, w)

SpecWrap == InitWrap /\ [][NextWrap]_vars

Sampling == {"sample", "weighted_sample", "weighted_sample_mut"}
Range(list) == {list[i] : i \in 1..Len(list)}

\* C8: sample, weighted_sample and weighted_sample_mut return None on an empty
\* list, and on a list that is not empty an element of that list.
Thm_C8 ==
    last[1].op \in Sampling =>
        IF last[1].list = <<>> THEN last[1].ret = None
        ELSE last[1].ret # None /\ last[1].ret[1] \in Range(last[1].list)

Wit_C8 ==
    /\ last[1].op = "weighted_sample_mut"
    /\ last[1].list = <<>>
    /\ nops = MaxCalls
    /\ \E i \in 1..Len(bareOut) : bareOut[i] = Some("b")

\* C10: whichever access paths the calls take, the GlobalRng holds the state
\* the bare Rng holds and has returned the values the bare Rng returned.
Thm_C10 ==
    /\ Wrapped = <<bare>>
    /\ out[1]["GlobalRng"] = bareOut

Wit_C10 ==
    /\ last[1].op = "weighted_sample_mut"
    /\ Len(last[1].list) > 1
    /\ nops = MaxCalls
    /\ Wrapped # GlobalRng_with_seed(0, U64(0))
    /\ \E i \in 1..Len(bareOut) : Len(bareOut[i]) = 8

(***************************************************************************)
(* SpecAccess: two systems run in parallel.  Each is granted its access to *)
(* the generators it names (Res / ResMut, Query<&T> / Query<&mut T>), and  *)
(* calls the methods its access allows.  A call is entered, runs its body  *)
(* and returns in separate steps, so that calls of the two systems overlap.*)
(***************************************************************************)
Methods == {"u64", "get_mut", "as_mut", "weighted_sample_mut", "from", "fmt"}

\* unsafe impl Sync for GlobalRng {}
GlobalRng_Sync == TRUE

\* Fault: a get_mut that took &self
GetMut_by_ref == "ref"

\* fn get_mut(&mut self) -> &mut Self::Source
get_mut_receiver == "mut"

\* fn weighted_sample_mut<'a, T, F>(&'a mut self, ..)
weighted_sample_mut_receiver == "mut"

\* fn as_mut(&mut self) -> &mut Rng
as_mut_receiver == "mut"

\* #[derive(Debug)]: fmt(&self, f)
fmt_receiver == "ref"

\* The delegated methods and From<&mut T> take a mut reference (crate docs, Usage)
Delegated_receiver == "mut"

Receiver(m) ==
    CASE m = "get_mut" -> get_mut_receiver
      [] m = "weighted_sample_mut" -> weighted_sample_mut_receiver
      [] m = "as_mut" -> as_mut_receiver
      [] m = "fmt" -> fmt_receiver
      [] OTHER -> Delegated_receiver

\* The methods of an owner type
MethodsOf(t) == IF t = "GlobalRng" THEN Methods ELSE {"u64", "get_mut", "from"}

\* The turborand Rng behind a reference advances on every draw, shared or not
\* (its methods take &self); fmt only reads it.
Advances(m) == m # "fmt"

\* What the borrow rules and the scheduler allow: any number of shared
\* accesses to a Sync value, or a single exclusive one
IsSync(t) == IF t = "GlobalRng" THEN GlobalRng_Sync ELSE TRUE

Compatible(s, o, mode) ==
    \A s2 \in Systems \ {s} :
        \/ access[s2][o] = "none"
        \/ mode = "shared" /\ access[s2][o] = "shared" /\ IsSync(OwnerType(o))

Allows(mode, receiver) ==
    \/ mode = "exclusive"
    \/ mode = "shared" /\ receiver = "ref"

InitAccess ==
    /\ features = {"wyrand"}
    /\ \E s \in Seeds :
          \E F \in {Component_from("GlobalRng", GlobalRng_with_seed(0, U64(s)))} :
              /\ plugin = [r \in Runs |-> RngPlugin_with_rng_seed(RngPlugin_new, U64(s))]
              /\ gen = [r \in Runs |-> IF r = 2 THEN NoGen ELSE
                        [NoGen EXCEPT !["GlobalRng"] = F.self, !["e1"] = F.comp]]
    /\ ty = [e \in Entities |-> IF e = "e1" THEN "RngComponent" ELSE "None"]
    /\ born = [r \in Runs |-> [e \in Entities |-> NotBorn]]
    /\ out = [r \in Runs |-> NoOut]
    /\ last = [r \in Runs |-> NoOp]
    /\ nops = 0
    /\ bare = Absent
    /\ bareOut = <<>>
    /\ access = [s \in Systems |-> [o \in Owners |-> "none"]]
    /\ busy = [s \in Systems |-> None]

\* The scheduler starts system s with the access its parameters ask for
Acquire(s, o, mode) ==
    /\ gen[1][o] # Absent
    /\ access[s][o] = "none"
    /\ Compatible(s, o, mode)
    /\ access' = [access EXCEPT ![s][o] = mode]
    /\ UNCHANGED <<features, plugin, gen, ty, born, out, last, nops, bare, bareOut, busy>>

\* System s is done with o
Release(s, o) ==
    /\ access[s][o] # "none"
    /\ IF busy[s] = None THEN TRUE ELSE busy[s][1].on # o
    /\ access' = [access EXCEPT ![s][o] = "none"]
    /\ UNCHANGED <<features, plugin, gen, ty, born, out, last, nops, bare, bareOut, busy>>

\* System s enters method m of o: the borrow it holds must give the receiver
Enter(s, o, m) ==
    /\ busy[s] = None
    /\ gen[1][o] # Absent
    /\ m \in MethodsOf(OwnerType(o))
    /\ Allows(access[s][o], Receiver(m))
    /\ Advances(m) => nops < MaxCalls
    /\ busy' = [busy EXCEPT ![s] = Some([on |-> o, method |-> m, pc |-> "entered"])]
    /\ UNCHANGED <<features, plugin, gen, ty, born, out, last, nops, bare, bareOut, access>>

\* The body of the method system s is in
Body(s) ==
    /\ busy[s] # None
    /\ busy[s][1].pc = "entered"
    /\ LET o == busy[s][1].on
           m == busy[s][1].method
           t == OwnerType(o)
       IN  \E R \in
               CASE m = "u64" ->
                      {[self |-> d.self, ret |-> d.val] : d \in {Delegated_u64(t, gen[1][o])}}
                 [] m = "get_mut" ->
                      {[self |-> get_mut_store(t, gen[1][o], r.state), ret |-> r.val] :
                          r \in {Core_rand(SourceOf(t), get_mut(t, gen[1][o]))}}
                 [] m = "as_mut" ->
                      {[self |-> GlobalRng_as_mut_store(gen[1][o], r.state), ret |-> r.val] :
                          r \in {WyRand_rand(GlobalRng_as_mut(gen[1][o]))}}
                 [] m = "weighted_sample_mut" ->
                      {GlobalRng_weighted_sample_mut(gen[1][o], <<"a", "b">>,
                                                     [x \in Elements |-> 2])}
                 [] m = "from" ->
                      {[self |-> f.self, ret |-> f.comp] : f \in {Component_from(t, gen[1][o])}}
                 [] OTHER -> {[self |-> gen[1][o], ret |-> <<t, gen[1][o]>>]} :
               /\ gen' = [gen EXCEPT ![1][o] = R.self]
               /\ busy' = [busy EXCEPT ![s] = Some([on |-> o, method |-> m, pc |-> "returning"])]
               /\ last' = [last EXCEPT ![1] =
                              [tick |-> 0, op |-> m, on |-> o, sys |-> s]]
               /\ nops' = IF Advances(m) THEN nops + 1 ELSE nops
    /\ UNCHANGED <<features, plugin, ty, born, out, bare, bareOut, access>>

\* The method returns
Return(s) ==
    /\ busy[s] # None
    /\ busy[s][1].pc = "returning"
    /\ busy' = [busy EXCEPT ![s] = None]
    /\ UNCHANGED <<features, plugin, gen, ty, born, out, last, nops, bare, bareOut, access>>

NextAccess ==
    \/ \E s \in Systems, o \in Owners, mode \in {"shared", "exclusive"} : Acquire(s, o, mode)
    \/ \E s \in Systems, o \in Owners : Release(s, o)
    \/ \E s \in Systems, o \in Owners, m \in Methods : Enter(s, o, m)
    \/ \E s \in Systems : Body(s)
    \/ \E s \in Systems : Return(s)

SpecAccess == InitAccess /\ [][NextAccess]_vars

\* System s is inside a call that advances the generator of o
Mutating(s, o) == busy[s] # None /\ busy[s][1].on = o /\ Advances(busy[s][1].method)

Sharing(o) == {s \in Systems : access[s][o] = "shared"}

ExclusiveOK ==
    \A o \in Owners :
        /\ Cardinality({s \in Systems : Mutating(s, o)}) <= 1
        /\ \A s \in Systems : Mutating(s, o) =>
              /\ access[s][o] = "exclusive"
              /\ \A s2 \in Systems \ {s} : access[s2][o] = "none"

AdvanceOK ==
    \A o \in Owners : gen'[1][o] # gen[1][o] =>
        /\ Sharing(o) = {}
        /\ \E s \in Systems : Mutating(s, o) /\ access[s][o] = "exclusive"

\* C7: a system inside an operation that advances a generator (a delegated
\* draw, get_mut, as_mut, weighted_sample_mut, a fork) holds exclusive access to
\* its owner, so at most one system is mutating a generator at any time; and
\* while systems share access to a generator, GlobalRng (which is Sync)
\* included, no step advances it.
Thm_C7 == [](ExclusiveOK) /\ [][AdvanceOK]_vars

Wit_C7 ==
    /\ Sharing("GlobalRng") = Systems
    /\ busy["s1"] # None /\ busy["s1"][1].on = "GlobalRng" /\ busy["s1"][1].method = "fmt"
    /\ Mutating("s2", "e1") /\ busy["s2"][1].pc = "returning"
    /\ last[1].op = "from" /\ last[1].on = "e1"
    /\ gen[1]["GlobalRng"] # Component_from("GlobalRng", GlobalRng_with_seed(0, U64(0))).self
    /\ nops = MaxCalls

====
